---- MODULE Spec2Model ----
(***************************************************************************)
(* A model of TextEditor (src/src/editor/text_editor.{h,cpp}): the line    *)
(* buffer, the undo engine, the two background lanes (highlight and        *)
(* semantic) with their futures, and the whole-buffer and per-line caches. *)
(*                                                                         *)
(* Text is a sequence of one-character strings; "\n" is the line feed.     *)
(* Cursor lines and columns are 0-based as in the code, so line n of the   *)
(* editor is lines_[n + 1] here.  std::hash is modelled as injective: a    *)
(* hash value is the hashed text under a tag naming the hash function.     *)
(***************************************************************************)
EXTENDS Integers, Sequences, FiniteSets, TLC

VARIABLES
    lines_, cursor_, selection_start_, has_selection_,
    cached_content_, content_dirty_,
    pending_edits_,
    undo_stack_, redo_stack_, typing_session_, deleting_session_,
    content_version_,
    highlight_future_, highlight_pending_, highlight_dirty_,
    semantic_future_, semantic_pending_,
    tokens_by_line_, line_token_cache_, token_cache_, semantic_cache_, sem_kind_,
    last_poll, crashed, hl_inflight, sem_inflight, ops

vars == << lines_, cursor_, selection_start_, has_selection_,
           cached_content_, content_dirty_, pending_edits_,
           undo_stack_, redo_stack_, typing_session_, deleting_session_,
           content_version_,
           highlight_future_, highlight_pending_, highlight_dirty_,
           semantic_future_, semantic_pending_,
           tokens_by_line_, line_token_cache_, token_cache_, semantic_cache_,
           sem_kind_, last_poll, crashed, hl_inflight, sem_inflight, ops >>

(***************************************************************************)
(* Bounds of the model and constants of the program.                       *)
(***************************************************************************)
\* input events handled per behaviour
MaxOps == 3
\* characters typed per behaviour of the typing-only specification
MaxTyped == 5
\* keys typed per behaviour of the specification with fairness
MaxFairOps == 2

TokenCacheLimit == 10
SemanticCacheLimit == 5
MAX_UNDO_STACK == 256
TYPING_DEBOUNCE == 1000
HIGHLIGHT_DEBOUNCE == 0
visible_column_start_ == 0
visible_column_width_ == 1000

NL == "\n"
\* the characters the keyboard delivers (Draw drops '\n' and '\r')
Alphabet == {"a", " "}
\* milliseconds since the previous event, as the steady clock may report them
ElapsedMs == {0, 1001}
\* file contents the constructor may load
InitialFiles == { <<>>, <<"a", NL, " ">> }
\* clipboard texts
PasteInputs == { <<"a">>, <<"a", NL>> }
\* arguments of SetContent made by a caller other than Undo and Redo
SetContentInputs == { <<>>, <<" ", NL, "a">> }
\* what one invocation of the tokenizer or of the indexer may do
ServiceOutcomes == {"returns", "throws"}

(***************************************************************************)
(* Text helpers.                                                           *)
(***************************************************************************)
Min(a, b) == IF a < b THEN a ELSE b
Max(a, b) == IF a < b THEN b ELSE a

\* s.substr(pos, count), pos and count 0-based and within the string
Substr(s, pos, count) == SubSeq(s, pos + 1, pos + count)

\* the while (std::getline(iss, line)) loop: a line feed ends a line, and a
\* last segment with no line feed is a line only when it is not empty
RECURSIVE ReadLines(_, _)
ReadLines(text, cur) ==
    IF text = <<>> THEN (IF cur = <<>> THEN <<>> ELSE <<cur>>)
    ELSE IF Head(text) = NL THEN <<cur>> \o ReadLines(Tail(text), <<>>)
    ELSE ReadLines(Tail(text), Append(cur, Head(text)))

\* the lines as getline delivers them, none for an empty text
SplitLinesAsRead(text) == ReadLines(text, <<>>)

\* the split of the constructor, SetContent and PasteText: never empty
SplitLines(text) ==
    LET read == ReadLines(text, <<>>)
    IN  IF read = <<>> THEN << <<>> >> ELSE read

\* the loop of GetContent: the lines with one line feed between them
RECURSIVE JoinLines(_)
JoinLines(ls) ==
    IF Len(ls) = 0 THEN <<>>
    ELSE IF Len(ls) = 1 THEN ls[1]
    ELSE ls[1] \o <<NL>> \o JoinLines(Tail(ls))

HashLine(line) == <<line>>
ZeroHash == <<>>
HashString(text) == <<"string", text>>
\* the fold of HashContent over the per-line hashes
HashContent(ls) == <<"lines", [i \in 1..Len(ls) |-> HashLine(ls[i])]>>

NoLineCache == [line_hash |-> ZeroHash, tokens |-> <<>>,
                is_valid |-> FALSE, needs_update |-> FALSE]

\* n default-constructed elements
Fill(n, x) == [i \in 1..n |-> x]

\* std::vector::resize(n): truncate, or append default elements
Resize(v, n, x) ==
    IF Len(v) >= n THEN SubSeq(v, 1, n) ELSE v \o Fill(n - Len(v), x)

\* v.insert(v.begin() + idx, n, x)
InsertAt(v, idx, n, x) ==
    SubSeq(v, 1, idx) \o Fill(n, x) \o SubSeq(v, idx + 1, Len(v))

\* v.erase(v.begin() + idx, v.begin() + idx + n)
EraseAt(v, idx, n) == SubSeq(v, 1, idx) \o SubSeq(v, idx + n + 1, Len(v))

(***************************************************************************)
(* The external services: the tokenizer maps text to spans (here every     *)
(* maximal run of non-blank characters of a line is one span), the indexer *)
(* maps text to located symbols (here one per span).                       *)
(***************************************************************************)
Token(row, col, len, type) ==
    [line |-> row, column |-> col, length |-> len, type |-> type]

RECURSIVE ScanLine(_, _, _, _)
ScanLine(text, row, col, start) ==
    LET flush == IF start >= 0
                 THEN << Token(row, start, col - start, "Ident") >> ELSE <<>>
    IN  IF col = Len(text) THEN flush
        ELSE IF text[col + 1] = " "
             THEN flush \o ScanLine(text, row, col + 1, -1)
             ELSE ScanLine(text, row, col + 1, IF start >= 0 THEN start ELSE col)

RECURSIVE ScanRows(_, _)
ScanRows(rows, row) ==
    IF rows = <<>> THEN <<>>
    ELSE ScanLine(Head(rows), row, 0, -1) \o ScanRows(Tail(rows), row + 1)

\* SyntaxHighlighter::HighlightIncremental, which ends in Highlight(code)
HighlightIncremental(code, edits) == ScanRows(ReadLines(code, <<>>), 1)

\* the loop of the semantic job over ClangIndexer::Index(file_path_, content)
IndexSemKinds(code) ==
    LET toks == HighlightIncremental(code, <<>>)
        keys == { <<toks[i].line, toks[i].column>> : i \in 1..Len(toks) }
    IN  [k \in keys |-> "VarDecl"]

(***************************************************************************)
(* The editor as one record, so that a handler is the composition of the   *)
(* methods it calls.  State is the record of the current state, Becomes(s) *)
(* makes s the next state.                                                 *)
(***************************************************************************)
State ==
    [ lines_ |-> lines_, cursor_ |-> cursor_,
      selection_start_ |-> selection_start_, has_selection_ |-> has_selection_,
      cached_content_ |-> cached_content_, content_dirty_ |-> content_dirty_,
      pending_edits_ |-> pending_edits_,
      undo_stack_ |-> undo_stack_, redo_stack_ |-> redo_stack_,
      typing_session_ |-> typing_session_,
      deleting_session_ |-> deleting_session_,
      content_version_ |-> content_version_,
      highlight_future_ |-> highlight_future_,
      highlight_pending_ |-> highlight_pending_,
      highlight_dirty_ |-> highlight_dirty_,
      semantic_future_ |-> semantic_future_,
      semantic_pending_ |-> semantic_pending_,
      tokens_by_line_ |-> tokens_by_line_,
      line_token_cache_ |-> line_token_cache_,
      token_cache_ |-> token_cache_, semantic_cache_ |-> semantic_cache_,
      sem_kind_ |-> sem_kind_,
      last_poll |-> last_poll, crashed |-> crashed,
      hl_inflight |-> hl_inflight, sem_inflight |-> sem_inflight, ops |-> ops ]

Becomes(s) ==
    /\ lines_' = s.lines_
    /\ cursor_' = s.cursor_
    /\ selection_start_' = s.selection_start_
    /\ has_selection_' = s.has_selection_
    /\ cached_content_' = s.cached_content_
    /\ content_dirty_' = s.content_dirty_
    /\ pending_edits_' = s.pending_edits_
    /\ undo_stack_' = s.undo_stack_
    /\ redo_stack_' = s.redo_stack_
    /\ typing_session_' = s.typing_session_
    /\ deleting_session_' = s.deleting_session_
    /\ content_version_' = s.content_version_
    /\ highlight_future_' = s.highlight_future_
    /\ highlight_pending_' = s.highlight_pending_
    /\ highlight_dirty_' = s.highlight_dirty_
    /\ semantic_future_' = s.semantic_future_
    /\ semantic_pending_' = s.semantic_pending_
    /\ tokens_by_line_' = s.tokens_by_line_
    /\ line_token_cache_' = s.line_token_cache_
    /\ token_cache_' = s.token_cache_
    /\ semantic_cache_' = s.semantic_cache_
    /\ sem_kind_' = s.sem_kind_
    /\ last_poll' = s.last_poll
    /\ crashed' = s.crashed
    /\ hl_inflight' = s.hl_inflight
    /\ sem_inflight' = s.sem_inflight
    /\ ops' = s.ops

CursorPosition(l, c) == [line |-> l, column |-> c]

\* CursorPosition::operator<
CursorLess(a, b) ==
    a.line < b.line \/ (a.line = b.line /\ a.column < b.column)

\* a std::future: invalid (default-constructed or consumed by get()),
\* running (the task has not returned), ready (a value or an exception)
NoFuture ==
    [state |-> "invalid", version |-> 0, content |-> <<>>, edits |-> <<>>,
     threw |-> FALSE, result |-> <<>>]

\* the log of the last result ProcessPendingHighlights consumed
NoPoll == [outcome |-> "none", job_ver |-> 0]

(***************************************************************************)
(* Serialization and the undo engine.                                      *)
(***************************************************************************)
\* GetContent: rebuilds the memoized string only when content_dirty_
GetContent(s) ==
    IF s.content_dirty_
    THEN [s EXCEPT !.cached_content_ = JoinLines(s.lines_),
                   !.content_dirty_ = FALSE]
    ELSE s

\* the snapshot and the std::async of UpdateHighlightingAsync: the job
\* captures the version, the content and the pending edits
LaunchHighlightJob(s) ==
    LET Launch(t) ==
            [t EXCEPT !.highlight_pending_ = TRUE,
                      !.pending_edits_ = <<>>,
                      !.highlight_future_ =
                          [state |-> "running",
                           version |-> t.content_version_,
                           content |-> t.cached_content_,
                           edits |-> t.pending_edits_,
                           threw |-> FALSE, result |-> <<>>],
                      !.hl_inflight = @ + 1]
    IN  Launch(GetContent(s))

\* the guard is highlight_pending_.exchange(true)
UpdateHighlightingAsync(s) ==
    IF s.highlight_pending_ THEN s ELSE LaunchHighlightJob(s)

\* the launch of the semantic job; the guard is semantic_pending_.exchange(true)
UpdateSemanticKindsAsync(s) ==
    LET Launch(t) ==
            [t EXCEPT !.semantic_pending_ = TRUE,
                      !.semantic_future_ =
                          \* the lambda captures no version: this one only
                          \* records when the snapshot was taken
                          [state |-> "running", version |-> t.content_version_,
                           content |-> t.cached_content_, edits |-> <<>>,
                           threw |-> FALSE, result |-> <<>>],
                      !.sem_inflight = @ + 1]
    IN  IF s.semantic_pending_ THEN s ELSE Launch(GetContent(s))

\* a marking that takes every line for changed
MarkDirtyEveryLine(cache, start_line, end_line) ==
    [i \in 1..Len(cache) |-> [cache[i] EXCEPT !.needs_update = TRUE]]

\* the "mark lines dirty" loops of UpdateContentFromLines
MarkDirty(cache, start_line, end_line) ==
    [i \in 1..Len(cache) |->
        IF (start_line >= 0 /\ end_line >= 0)
           => (start_line <= i - 1 /\ i - 1 <= end_line)
        THEN [cache[i] EXCEPT !.needs_update = TRUE]
        ELSE cache[i]]

\* UpdateContentFromLines up to the dirty marks: the memo is invalidated,
\* the version advances, the per-line vectors follow the size of lines_
MarkContentChanged(s, start_line, end_line0) ==
    LET Marked(n, end_line) ==
            [s EXCEPT
                !.content_dirty_ = TRUE,
                !.content_version_ = @ + 1,
                !.line_token_cache_ =
                    MarkDirty(Resize(@, n, NoLineCache), start_line, end_line),
                !.tokens_by_line_ = Resize(@, n, <<>>)]
    IN  Marked(Len(s.lines_),
               IF end_line0 < 0 THEN Len(s.lines_) - 1 ELSE end_line0)

\* a launch on every mutation, whatever the pending flag says
ScheduleHighlightUnguarded(s, elapsed) ==
    IF elapsed >= HIGHLIGHT_DEBOUNCE THEN LaunchHighlightJob(s) ELSE s

\* the debounce test at the end of UpdateContentFromLines: a pending job
\* is marked dirty, an idle lane launches
ScheduleHighlight(s, elapsed) ==
    IF elapsed >= HIGHLIGHT_DEBOUNCE
    THEN IF s.highlight_pending_
         THEN [s EXCEPT !.highlight_dirty_ = TRUE]
         ELSE UpdateHighlightingAsync(s)
    ELSE s

UpdateContentFromLines(s, start_line, end_line0, elapsed) ==
    ScheduleHighlight(MarkContentChanged(s, start_line, end_line0), elapsed)

\* a push that never drops a snapshot
SaveUndoUntrimmed(s) ==
    LET Pushed(t) ==
            [t EXCEPT !.undo_stack_ =
                          Append(@, [content |-> t.cached_content_,
                                     cursor |-> t.cursor_]),
                      !.redo_stack_ = <<>>]
    IN  Pushed(GetContent(s))

\* SaveUndo: push (content, cursor), drop the oldest beyond MAX_UNDO_STACK,
\* clear the redo stack
SaveUndo(s) ==
    LET Trimmed(stack) ==
            IF Len(stack) > MAX_UNDO_STACK
            THEN SubSeq(stack, Len(stack) - MAX_UNDO_STACK + 1, Len(stack))
            ELSE stack
        Pushed(t) ==
            [t EXCEPT !.undo_stack_ =
                          Trimmed(Append(@, [content |-> t.cached_content_,
                                             cursor |-> t.cursor_])),
                      !.redo_stack_ = <<>>]
    IN  Pushed(GetContent(s))

(***************************************************************************)
(* SetContent: the diff by longest common prefix and suffix of whole lines *)
(***************************************************************************)
RECURSIVE PrefixLen(_, _, _)
PrefixLen(old, new, p) ==
    IF p < Len(old) /\ p < Len(new) /\ old[p + 1] = new[p + 1]
    THEN PrefixLen(old, new, p + 1) ELSE p

\* a suffix scan that may run into the lines of the common prefix
RECURSIVE SuffixLenOverlapping(_, _, _, _)
SuffixLenOverlapping(old, new, p, q) ==
    IF q < Len(old) /\ q < Len(new)
       /\ old[Len(old) - q] = new[Len(new) - q]
    THEN SuffixLenOverlapping(old, new, p, q + 1) ELSE q

RECURSIVE SuffixLen(_, _, _, _)
SuffixLen(old, new, p, q) ==
    IF q < Len(old) - p /\ q < Len(new) - p
       /\ old[Len(old) - q] = new[Len(new) - q]
    THEN SuffixLen(old, new, p, q + 1) ELSE q

\* the changed middle block of SetContent: a default entry, invalidated
InvalidLineCache ==
    [NoLineCache EXCEPT !.is_valid = FALSE, !.needs_update = TRUE]

SetContent(s, content, elapsed) ==
    LET Swapped(new_lines, prefix_len, suffix_len) ==
            [s EXCEPT
                !.tokens_by_line_ =
                    [i \in 1..Len(new_lines) |->
                        IF i - 1 >= Len(new_lines) - suffix_len
                        THEN @[i + Len(s.lines_) - Len(new_lines)]
                        ELSE IF i - 1 < prefix_len THEN @[i] ELSE <<>>],
                !.line_token_cache_ =
                    [i \in 1..Len(new_lines) |->
                        IF i - 1 >= Len(new_lines) - suffix_len
                        THEN @[i + Len(s.lines_) - Len(new_lines)]
                        ELSE IF i - 1 < prefix_len THEN @[i]
                        ELSE InvalidLineCache],
                !.lines_ = new_lines,
                !.cursor_ = CursorPosition(0, 0),
                !.has_selection_ = FALSE]
        Queued(new_size, prefix_len, suffix_len, t) ==
            IF prefix_len < new_size - suffix_len
            THEN UpdateContentFromLines(t, prefix_len,
                                        new_size - suffix_len - 1, elapsed)
            ELSE t
        Diffed(new_lines, prefix_len, suffix_len) ==
            Queued(Len(new_lines), prefix_len, suffix_len,
                   Swapped(new_lines, prefix_len, suffix_len))
        Suffixed(new_lines, prefix_len) ==
            Diffed(new_lines, prefix_len,
                   SuffixLen(s.lines_, new_lines, prefix_len, 0))
        Prefixed(new_lines) ==
            Suffixed(new_lines, PrefixLen(s.lines_, new_lines, 0))
    IN  Prefixed(SplitLines(content))

Undo(s, elapsed) ==
    LET Restored(state, t) ==
            [SetContent(t, state.content, elapsed)
                EXCEPT !.cursor_ = state.cursor]
        Popped(t) ==
            Restored(t.undo_stack_[Len(t.undo_stack_)],
                     [t EXCEPT
                        !.redo_stack_ =
                            Append(@, [content |-> t.cached_content_,
                                       cursor |-> t.cursor_]),
                        !.undo_stack_ = SubSeq(@, 1, Len(@) - 1)])
    IN  IF s.undo_stack_ = <<>> THEN s ELSE Popped(GetContent(s))

Redo(s, elapsed) ==
    LET Restored(state, t) ==
            [SetContent(t, state.content, elapsed)
                EXCEPT !.cursor_ = state.cursor]
        Popped(t) ==
            Restored(t.redo_stack_[Len(t.redo_stack_)],
                     [t EXCEPT
                        !.undo_stack_ =
                            Append(@, [content |-> t.cached_content_,
                                       cursor |-> t.cursor_]),
                        !.redo_stack_ = SubSeq(@, 1, Len(@) - 1)])
    IN  IF s.redo_stack_ = <<>> THEN s ELSE Popped(GetContent(s))

(***************************************************************************)
(* The edit primitives.                                                    *)
(***************************************************************************)
\* what the edit primitives index with: a cursor (or selection end) on a line
\* of the buffer and within it
InRange(s, pos) ==
    /\ 0 <= pos.line /\ pos.line < Len(s.lines_)
    /\ 0 <= pos.column /\ pos.column <= Len(s.lines_[pos.line + 1])

\* std::string::erase(pos, n): n is clamped to the rest of the string
StrErase(str, pos, n) ==
    SubSeq(str, 1, pos) \o SubSeq(str, pos + Min(n, Len(str) - pos) + 1, Len(str))

\* SafeSubstr(s, pos, count), count INT_MAX when left out
SafeSubstr(str, pos, count) ==
    IF pos < 0 \/ pos >= Len(str) THEN <<>>
    ELSE Substr(str, pos, Min(count, Len(str) - pos))

InsertLineCaches(s, idx, n) ==
    [s EXCEPT !.line_token_cache_ = InsertAt(@, idx, n, NoLineCache),
              !.tokens_by_line_ = InsertAt(@, idx, n, <<>>)]

EraseLineCaches(s, idx, n) ==
    [s EXCEPT !.line_token_cache_ = EraseAt(@, idx, n),
              !.tokens_by_line_ = EraseAt(@, idx, n)]

DeleteSelectedText(s, elapsed) ==
    LET OneLine(t, start, end) ==
            UpdateContentFromLines(
                EraseLineCaches(
                    [t EXCEPT !.lines_[start.line + 1] =
                        StrErase(@, start.column, end.column - start.column)],
                    start.line + 1, 0),
                start.line, start.line, elapsed)
        ToEnd(t, start) ==
            UpdateContentFromLines(t, start.line, Len(t.lines_) - 1, elapsed)
        Lines(t, start, end) ==
            ToEnd(EraseLineCaches(
                    [t EXCEPT !.lines_ =
                        EraseAt([@ EXCEPT ![start.line + 1] =
                                    Substr(@, 0, start.column)
                                    \o SubSeq(t.lines_[end.line + 1],
                                              end.column + 1,
                                              Len(t.lines_[end.line + 1]))],
                                start.line + 1, end.line - start.line)],
                    start.line + 1, end.line - start.line),
                  start)
        Erased(t, start, end) ==
            [(IF start.line = end.line
              THEN OneLine(t, start, end) ELSE Lines(t, start, end))
                EXCEPT !.cursor_ = start, !.has_selection_ = FALSE]
        Ordered(t) ==
            Erased(t,
                   IF CursorLess(t.selection_start_, t.cursor_)
                   THEN t.selection_start_ ELSE t.cursor_,
                   IF CursorLess(t.cursor_, t.selection_start_)
                   THEN t.selection_start_ ELSE t.cursor_)
    IN  IF ~s.has_selection_ THEN s ELSE Ordered(SaveUndo(s))

InsertChar(s, c, elapsed) ==
    LET Cleared(t) ==
            IF t.has_selection_
            THEN [DeleteSelectedText(t, elapsed)
                     EXCEPT !.typing_session_ = FALSE]
            ELSE t
        Session(t) ==
            IF ~t.typing_session_ \/ elapsed > TYPING_DEBOUNCE
            THEN [SaveUndo(t) EXCEPT !.typing_session_ = TRUE]
            ELSE t
        Typed(t) ==
            [t EXCEPT
                !.lines_[t.cursor_.line + 1] =
                    SubSeq(@, 1, t.cursor_.column) \o <<c>>
                    \o SubSeq(@, t.cursor_.column + 1, Len(@)),
                !.cursor_.column = @ + 1]
        Updated(t) ==
            UpdateContentFromLines(t, t.cursor_.line, t.cursor_.line, elapsed)
    IN  Updated(Typed(Session(Cleared(s))))

InsertNewLine(s, elapsed) ==
    LET Cleared(t) ==
            IF t.has_selection_ THEN DeleteSelectedText(t, elapsed) ELSE t
        Saved(t) == [SaveUndo(t) EXCEPT !.typing_session_ = FALSE]
        Broken(t, row, line) ==
            [t EXCEPT
                !.lines_ =
                    SubSeq(@, 1, row)
                    \o << SafeSubstr(line, 0, t.cursor_.column),
                          SafeSubstr(line, t.cursor_.column, Len(line)) >>
                    \o SubSeq(@, row + 2, Len(@))]
        Split(t) == Broken(t, t.cursor_.line, t.lines_[t.cursor_.line + 1])
        Moved(t) ==
            [InsertLineCaches(t, t.cursor_.line + 1, 1)
                EXCEPT !.cursor_ = CursorPosition(t.cursor_.line + 1, 0)]
        Updated(t) ==
            UpdateContentFromLines(t, t.cursor_.line - 1, Len(t.lines_) - 1,
                                   elapsed)
    IN  Updated(Moved(Split(Saved(Cleared(s)))))

DeleteChar(s, elapsed) ==
    LET Session(t) ==
            IF ~t.deleting_session_ \/ elapsed > TYPING_DEBOUNCE
            THEN [SaveUndo(t) EXCEPT !.deleting_session_ = TRUE]
            ELSE t
        ToEnd(t) ==
            UpdateContentFromLines(t, t.cursor_.line, Len(t.lines_) - 1,
                                   elapsed)
        Joined(t, row) ==
            ToEnd(EraseLineCaches(
                    [t EXCEPT
                        !.cursor_ = CursorPosition(row - 1, Len(t.lines_[row])),
                        !.lines_ =
                            EraseAt([@ EXCEPT ![row] = @ \o t.lines_[row + 1]],
                                    row, 1)],
                    row, 1))
        OneLine(t) ==
            UpdateContentFromLines(t, t.cursor_.line, t.cursor_.line, elapsed)
        Erased(t, row) ==
            OneLine([t EXCEPT
                       !.lines_[row + 1] = StrErase(@, t.cursor_.column - 1, 1),
                       !.cursor_.column = @ - 1])
        Deleted(t) ==
            IF t.cursor_.column = 0
            THEN Joined(t, t.cursor_.line) ELSE Erased(t, t.cursor_.line)
    IN  IF s.has_selection_
        THEN [DeleteSelectedText(s, elapsed) EXCEPT !.deleting_session_ = FALSE]
        ELSE IF s.cursor_.column = 0 /\ s.cursor_.line = 0 THEN s
        ELSE Deleted(Session(s))

PasteText(s, text, elapsed) ==
    LET Cleared(t) ==
            IF t.has_selection_ THEN DeleteSelectedText(t, elapsed) ELSE t
        ToEnd(t) ==
            UpdateContentFromLines(t, t.cursor_.line, Len(t.lines_) - 1,
                                   elapsed)
        \* steps 3 to 6: the spliced lines, the suffix on the last pasted
        \* line, InsertLineCaches(cursor_.line + i) for i = 1 .. k - 1
        Spliced(t, newLines, row, curLine, k) ==
            InsertLineCaches(
                [t EXCEPT
                    !.lines_ =
                        [ SubSeq(@, 1, row)
                          \o << Substr(curLine, 0, t.cursor_.column)
                                \o newLines[1] >>
                          \o SubSeq(newLines, 2, k)
                          \o SubSeq(@, row + 2, Len(@))
                          EXCEPT ![row + k] =
                              @ \o SubSeq(curLine, t.cursor_.column + 1,
                                          Len(curLine)) ],
                    !.cursor_ = CursorPosition(row + k - 1, Len(newLines[k]))],
                row + 1, k - 1)
        Pasted(t, newLines) ==
            ToEnd(Spliced(t, newLines, t.cursor_.line,
                          t.lines_[t.cursor_.line + 1], Len(newLines)))
    IN  Pasted(SaveUndo(Cleared(s)), SplitLines(text))

MoveCursorLeft(s) ==
    IF s.cursor_.column > 0 THEN [s EXCEPT !.cursor_.column = @ - 1]
    ELSE IF s.cursor_.line > 0
         THEN [s EXCEPT !.cursor_ =
                   CursorPosition(s.cursor_.line - 1,
                                  Len(s.lines_[s.cursor_.line]))]
         ELSE s

MoveCursorRight(s) ==
    IF s.cursor_.column < Len(s.lines_[s.cursor_.line + 1])
    THEN [s EXCEPT !.cursor_.column = @ + 1]
    ELSE IF s.cursor_.line < Len(s.lines_) - 1
         THEN [s EXCEPT !.cursor_ = CursorPosition(s.cursor_.line + 1, 0)]
         ELSE s

\* the arrow-key handlers of Draw: SetSelection under Shift, else ClearSelection
ArrowKey(s, right, shift) ==
    LET Anchored(t) ==
            IF shift /\ ~t.has_selection_
            THEN [t EXCEPT !.selection_start_ = t.cursor_,
                           !.has_selection_ = TRUE]
            ELSE t
        Moved(t) == IF right THEN MoveCursorRight(t) ELSE MoveCursorLeft(t)
        Released(t) == IF shift THEN t ELSE [t EXCEPT !.has_selection_ = FALSE]
    IN  Released(Moved(Anchored(s)))

\* Ctrl+A in Draw
SelectAllKey(s) ==
    [s EXCEPT !.selection_start_ = CursorPosition(0, 0),
              !.cursor_ = CursorPosition(Len(s.lines_) - 1,
                                         Len(s.lines_[Len(s.lines_)])),
              !.has_selection_ = TRUE]

(***************************************************************************)
(* The background jobs.  A job runs on its own thread from launch until    *)
(* its future is ready; the foreground reads token_cache_ and              *)
(* semantic_cache_ only in the poll of a ready future, so the run of a job *)
(* is one step.                                                            *)
(***************************************************************************)
\* cache[h] = v; if (cache.size() > limit) { cache.clear(); cache[h] = v; }
BoundedPut(cache, h, v, limit) ==
    LET put == (h :> v) @@ cache
    IN  IF Cardinality(DOMAIN put) > limit THEN (h :> v) ELSE put

\* the lambda of UpdateHighlightingAsync
HighlightJob(s, outcome) ==
    LET f == s.highlight_future_
        h == HashString(f.content)
        tokens == HighlightIncremental(f.content, f.edits)
        failed == [s EXCEPT !.highlight_future_.state = "ready",
                            !.highlight_future_.threw = TRUE]
    IN  IF f.edits # <<>>
        THEN IF outcome = "throws" THEN failed
             ELSE [s EXCEPT !.highlight_future_.state = "ready",
                            !.highlight_future_.result = tokens]
        ELSE IF h \in DOMAIN s.token_cache_
        THEN [s EXCEPT !.highlight_future_.state = "ready",
                       !.highlight_future_.result = s.token_cache_[h]]
        ELSE IF outcome = "throws" THEN failed
        ELSE [s EXCEPT !.highlight_future_.state = "ready",
                       !.highlight_future_.result = tokens,
                       !.token_cache_ =
                           BoundedPut(@, h, tokens, TokenCacheLimit)]

\* the lambda of UpdateSemanticKindsAsync
SemanticJob(s, outcome) ==
    LET f == s.semantic_future_
        content_hash == HashString(f.content)
        sem_kind == IndexSemKinds(f.content)
    IN  IF content_hash \in DOMAIN s.semantic_cache_
        THEN [s EXCEPT !.semantic_future_.state = "ready",
                       !.semantic_future_.result =
                           s.semantic_cache_[content_hash]]
        ELSE IF outcome = "throws"
        THEN [s EXCEPT !.semantic_future_.state = "ready",
                       !.semantic_future_.threw = TRUE]
        ELSE [s EXCEPT !.semantic_future_.state = "ready",
                       !.semantic_future_.result = sem_kind,
                       !.semantic_cache_ =
                           BoundedPut(@, content_hash, sem_kind,
                                      SemanticCacheLimit)]

(***************************************************************************)
(* The poll steps of Draw and the per-line resolution.                     *)
(***************************************************************************)
\* std::sort by column of the tokens of one line (columns are distinct)
RECURSIVE SortByColumn(_)
SortByColumn(toks) ==
    IF Len(toks) <= 1 THEN toks
    ELSE LET rest == SortByColumn(Tail(toks))
             t == Head(toks)
             lower == SelectSeq(rest, LAMBDA x : x.column < t.column)
             upper == SelectSeq(rest, LAMBDA x : ~(x.column < t.column))
         IN  lower \o <<t>> \o upper

RebuildTokensByLine(s) ==
    LET content_hash == HashContent(s.lines_)
    IN  IF content_hash \notin DOMAIN s.token_cache_ THEN s
        ELSE [s EXCEPT !.tokens_by_line_ =
                 [i \in 1..Len(s.lines_) |->
                     SortByColumn(SelectSeq(s.token_cache_[content_hash],
                                            LAMBDA x : x.line - 1 = i - 1))]]

\* a test that lets every result through
IsStaleNever(job_ver, current_version) == FALSE

\* the version test of ProcessPendingHighlights
IsStale(job_ver, current_version) == job_ver # current_version

\* a relaunch that reads highlight_dirty_ without clearing it
RelaunchKeepsDirty(s) ==
    IF s.highlight_dirty_ THEN UpdateHighlightingAsync(s) ELSE s

\* if (highlight_dirty_.exchange(false)) UpdateHighlightingAsync();
RelaunchIfDirty(s) ==
    IF s.highlight_dirty_
    THEN UpdateHighlightingAsync([s EXCEPT !.highlight_dirty_ = FALSE])
    ELSE s

ProcessPendingHighlights(s) ==
    LET f == s.highlight_future_
        Logged(t, outcome) ==
            [t EXCEPT !.last_poll = [outcome |-> outcome,
                                     job_ver |-> f.version]]
        Refreshed(t) ==
            [t EXCEPT !.line_token_cache_ =
                [i \in 1..Len(@) |-> [@[i] EXCEPT !.needs_update = TRUE]]]
        Applied(t) ==
            Refreshed(RebuildTokensByLine(
                [t EXCEPT !.token_cache_ =
                    (HashContent(t.lines_) :> f.result) @@ @]))
        Consumed(t) ==
            IF IsStale(f.version, t.content_version_)
            THEN RelaunchIfDirty(Logged(t, "stale"))
            ELSE RelaunchIfDirty(Logged(Applied(t), "applied"))
    IN  IF f.state # "ready" THEN s
        ELSE IF f.threw
        \* get() rethrows before highlight_pending_ = false; nothing catches
        THEN [Logged(s, "raised") EXCEPT !.highlight_future_ = NoFuture,
                                         !.hl_inflight = @ - 1,
                                         !.crashed = TRUE]
        ELSE Consumed([s EXCEPT !.highlight_future_ = NoFuture,
                                !.hl_inflight = @ - 1,
                                !.highlight_pending_ = FALSE])

ProcessPendingSemantics(s) ==
    LET f == s.semantic_future_
    IN  IF f.state # "ready" THEN s
        ELSE IF f.threw
        THEN [s EXCEPT !.semantic_future_ = NoFuture,
                       !.sem_inflight = @ - 1,
                       !.crashed = TRUE]
        ELSE [s EXCEPT !.semantic_future_ = NoFuture,
                       !.sem_inflight = @ - 1,
                       !.sem_kind_ = f.result,
                       !.semantic_pending_ = FALSE]

\* FilterVisibleTokens, with the visible columns the editor starts with
FilterVisibleTokens(tokens) ==
    SelectSeq(tokens,
              LAMBDA x : /\ x.column + x.length >= visible_column_start_
                         /\ x.column <= visible_column_start_
                                        + visible_column_width_)

\* GetVisibleTokensForLine with a placeholder that counts as resolved
GetVisibleTokensForLineResolved(s, line_number) ==
    IF line_number < 0 \/ line_number >= Len(s.lines_) THEN s
    ELSE
    LET cache == s.line_token_cache_[line_number + 1]
        text == s.lines_[line_number + 1]
        line_hash == HashLine(text)
    IN  IF cache.is_valid /\ ~cache.needs_update /\ cache.line_hash = line_hash
        THEN s
        ELSE IF line_number >= Len(s.tokens_by_line_) THEN s
        ELSE IF s.tokens_by_line_[line_number + 1] # <<>>
        THEN [s EXCEPT !.line_token_cache_[line_number + 1] =
                 [line_hash |-> line_hash,
                  tokens |-> s.tokens_by_line_[line_number + 1],
                  is_valid |-> TRUE, needs_update |-> FALSE]]
        ELSE IF ~cache.is_valid
        THEN [s EXCEPT !.line_token_cache_[line_number + 1] =
                 [line_hash |-> line_hash,
                  tokens |-> IF text # <<>>
                             THEN << Token(line_number + 1, 0, Len(text),
                                           "Default") >>
                             ELSE <<>>,
                  is_valid |-> TRUE, needs_update |-> FALSE]]
        ELSE s

\* what GetVisibleTokensForLine does to the cache entry of the line
GetVisibleTokensForLine(s, line_number) ==
    IF line_number < 0 \/ line_number >= Len(s.lines_) THEN s
    ELSE
    LET cache == s.line_token_cache_[line_number + 1]
        text == s.lines_[line_number + 1]
        line_hash == HashLine(text)
    IN  IF cache.is_valid /\ ~cache.needs_update /\ cache.line_hash = line_hash
        THEN s
        ELSE IF line_number >= Len(s.tokens_by_line_) THEN s
        ELSE IF s.tokens_by_line_[line_number + 1] # <<>>
        THEN [s EXCEPT !.line_token_cache_[line_number + 1] =
                 [line_hash |-> line_hash,
                  tokens |-> s.tokens_by_line_[line_number + 1],
                  is_valid |-> TRUE, needs_update |-> FALSE]]
        ELSE IF ~cache.is_valid
        THEN [s EXCEPT !.line_token_cache_[line_number + 1] =
                 [line_hash |-> line_hash,
                  tokens |-> IF text # <<>>
                             THEN << Token(line_number + 1, 0, Len(text),
                                           "Default") >>
                             ELSE <<>>,
                  is_valid |-> TRUE, needs_update |-> TRUE]]
        ELSE s

\* what GetVisibleTokensForLine returns
VisibleTokensForLine(s, line_number) ==
    IF line_number < 0 \/ line_number >= Len(s.lines_) THEN <<>>
    ELSE FilterVisibleTokens(
           GetVisibleTokensForLine(s, line_number)
               .line_token_cache_[line_number + 1].tokens)

(***************************************************************************)
(* Construction.                                                           *)
(***************************************************************************)
\* the member initializers and the body of TextEditor::TextEditor
Constructed(file) ==
    LET ls == SplitLines(file)
        fresh ==
            [ lines_ |-> ls, cursor_ |-> CursorPosition(0, 0),
              selection_start_ |-> CursorPosition(0, 0),
              has_selection_ |-> FALSE,
              cached_content_ |-> <<>>, content_dirty_ |-> TRUE,
              pending_edits_ |-> <<>>,
              undo_stack_ |-> <<>>, redo_stack_ |-> <<>>,
              typing_session_ |-> FALSE, deleting_session_ |-> FALSE,
              content_version_ |-> 0,
              highlight_future_ |-> NoFuture,
              highlight_pending_ |-> FALSE, highlight_dirty_ |-> FALSE,
              semantic_future_ |-> NoFuture, semantic_pending_ |-> FALSE,
              tokens_by_line_ |-> Fill(Len(ls), <<>>),
              line_token_cache_ |-> Fill(Len(ls), NoLineCache),
              token_cache_ |-> <<>>, semantic_cache_ |-> <<>>,
              sem_kind_ |-> <<>>,
              last_poll |-> NoPoll, crashed |-> FALSE,
              hl_inflight |-> 0, sem_inflight |-> 0, ops |-> 0 ]
    IN  UpdateSemanticKindsAsync(UpdateHighlightingAsync(fresh))

Starts(s) ==
    /\ lines_ = s.lines_
    /\ cursor_ = s.cursor_
    /\ selection_start_ = s.selection_start_
    /\ has_selection_ = s.has_selection_
    /\ cached_content_ = s.cached_content_
    /\ content_dirty_ = s.content_dirty_
    /\ pending_edits_ = s.pending_edits_
    /\ undo_stack_ = s.undo_stack_
    /\ redo_stack_ = s.redo_stack_
    /\ typing_session_ = s.typing_session_
    /\ deleting_session_ = s.deleting_session_
    /\ content_version_ = s.content_version_
    /\ highlight_future_ = s.highlight_future_
    /\ highlight_pending_ = s.highlight_pending_
    /\ highlight_dirty_ = s.highlight_dirty_
    /\ semantic_future_ = s.semantic_future_
    /\ semantic_pending_ = s.semantic_pending_
    /\ tokens_by_line_ = s.tokens_by_line_
    /\ line_token_cache_ = s.line_token_cache_
    /\ token_cache_ = s.token_cache_
    /\ semantic_cache_ = s.semantic_cache_
    /\ sem_kind_ = s.sem_kind_
    /\ last_poll = s.last_poll
    /\ crashed = s.crashed
    /\ hl_inflight = s.hl_inflight
    /\ sem_inflight = s.sem_inflight
    /\ ops = s.ops

Init == \E file \in InitialFiles : Starts(Constructed(file))

(***************************************************************************)
(* The steps: one input event of Draw, one poll of Draw, or the run of a   *)
(* background job.  An uncaught exception ends the process (crashed).      *)
(***************************************************************************)
\* the handler may index lines_ with the cursor and the selection start
Indexable ==
    /\ InRange(State, cursor_)
    /\ has_selection_ => InRange(State, selection_start_)

\* one more input event handled, of at most MaxOps per behaviour
Counted(s) == [s EXCEPT !.ops = @ + 1]

TypeChar ==
    /\ ~crashed /\ ops < MaxOps /\ Indexable
    /\ \E c \in Alphabet, elapsed \in ElapsedMs :
          Becomes(Counted(InsertChar(State, c, elapsed)))

Backspace ==
    /\ ~crashed /\ ops < MaxOps /\ Indexable
    /\ has_selection_ \/ cursor_ # CursorPosition(0, 0)
    /\ \E elapsed \in ElapsedMs : Becomes(Counted(DeleteChar(State, elapsed)))

EnterKey ==
    /\ ~crashed /\ ops < MaxOps /\ Indexable
    /\ \E elapsed \in ElapsedMs :
          Becomes(Counted(InsertNewLine(State, elapsed)))

Paste ==
    /\ ~crashed /\ ops < MaxOps /\ Indexable
    /\ \E text \in PasteInputs, elapsed \in ElapsedMs :
          Becomes(Counted(PasteText(State, text, elapsed)))

CutSelection ==
    /\ ~crashed /\ ops < MaxOps /\ Indexable /\ has_selection_
    /\ \E elapsed \in ElapsedMs :
          Becomes(Counted(DeleteSelectedText(State, elapsed)))

UndoKey ==
    /\ ~crashed /\ ops < MaxOps /\ undo_stack_ # <<>>
    /\ \E elapsed \in ElapsedMs : Becomes(Counted(Undo(State, elapsed)))

RedoKey ==
    /\ ~crashed /\ ops < MaxOps /\ redo_stack_ # <<>>
    /\ \E elapsed \in ElapsedMs : Becomes(Counted(Redo(State, elapsed)))

ReplaceContent ==
    /\ ~crashed /\ ops < MaxOps
    /\ \E text \in SetContentInputs, elapsed \in ElapsedMs :
          Becomes(Counted(SetContent(State, text, elapsed)))

Arrow ==
    /\ ~crashed /\ ops < MaxOps /\ Indexable
    /\ \E right \in BOOLEAN, shift \in BOOLEAN :
          Becomes(Counted(ArrowKey(State, right, shift)))

SelectAll ==
    /\ ~crashed /\ ops < MaxOps
    /\ Becomes(Counted(SelectAllKey(State)))

\* an edit key with the cursor off the buffer: lines_[cursor_.line] is out of
\* bounds (undefined), std::string::insert and substr throw std::out_of_range.
\* The process ends, or the access has no effect the model sees (a stutter).
OutOfRangeEdit ==
    /\ ~crashed /\ ~Indexable
    /\ Becomes([State EXCEPT !.crashed = TRUE])

HighlightJobRuns ==
    /\ ~crashed /\ highlight_future_.state = "running"
    /\ \E outcome \in ServiceOutcomes : Becomes(HighlightJob(State, outcome))

SemanticJobRuns ==
    /\ ~crashed /\ semantic_future_.state = "running"
    /\ \E outcome \in ServiceOutcomes : Becomes(SemanticJob(State, outcome))

PollHighlights ==
    /\ ~crashed /\ highlight_future_.state = "ready"
    /\ Becomes(ProcessPendingHighlights(State))

PollSemantics ==
    /\ ~crashed /\ semantic_future_.state = "ready"
    /\ Becomes(ProcessPendingSemantics(State))

\* the frame's text pass: every line of the window, top to bottom; the
\* documents here are shorter than the smallest window
RECURSIVE RenderFrom(_, _)
RenderFrom(s, lineNo) ==
    IF lineNo >= Len(s.lines_) THEN s
    ELSE RenderFrom(GetVisibleTokensForLine(s, lineNo), lineNo + 1)

RenderLines ==
    /\ ~crashed
    /\ Becomes(RenderFrom(State, 0))

Next ==
    \/ TypeChar \/ Backspace \/ EnterKey \/ Paste \/ CutSelection
    \/ UndoKey \/ RedoKey \/ ReplaceContent
    \/ Arrow \/ SelectAll \/ OutOfRangeEdit
    \/ HighlightJobRuns \/ SemanticJobRuns
    \/ PollHighlights \/ PollSemantics
    \/ RenderLines

Spec == Init /\ [][Next]_vars

(***************************************************************************)
(* The same steps where a job that has been launched gets to run and a     *)
(* frame gets drawn: a ready future is polled.  The input events are a     *)
(* few keys typed without selection, clipboard and history.                *)
(***************************************************************************)
NextFair ==
    \/ (ops < MaxFairOps /\ (TypeChar \/ Backspace \/ EnterKey))
    \/ HighlightJobRuns \/ SemanticJobRuns
    \/ PollHighlights \/ PollSemantics

SpecFair ==
    /\ Init /\ [][NextFair]_vars
    /\ WF_vars(HighlightJobRuns) /\ WF_vars(PollHighlights)
    /\ WF_vars(SemanticJobRuns) /\ WF_vars(PollSemantics)

(***************************************************************************)
(* A typing session on an empty file: only the highlight lane moves.       *)
(***************************************************************************)
InitTyping == Starts(Constructed(<<>>))

TypeOne ==
    /\ ~crashed /\ ops < MaxTyped /\ Indexable
    /\ \E elapsed \in ElapsedMs :
          Becomes(Counted(InsertChar(State, "a", elapsed)))

NextTyping == TypeOne \/ HighlightJobRuns \/ PollHighlights

SpecTyping == InitTyping /\ [][NextTyping]_vars

(***************************************************************************)
(* A session whose tokenizer throws on every invocation.                   *)
(***************************************************************************)
HighlightJobThrows ==
    /\ ~crashed /\ highlight_future_.state = "running"
    /\ Becomes(HighlightJob(State, "throws"))

NextThrowing ==
    \/ TypeChar \/ Backspace \/ EnterKey
    \/ HighlightJobThrows \/ PollHighlights \/ RenderLines

SpecThrowing == Init /\ [][NextThrowing]_vars

(***************************************************************************)
(* Steps as the claims speak of them.                                      *)
(***************************************************************************)
\* a poll of the highlight lane that finds a completed job and takes it
HighlightPollConsumes ==
    /\ highlight_future_.state = "ready"
    /\ highlight_future_'.state # "ready"

\* a poll of the semantic lane that finds a completed job and takes it
SemanticPollConsumes ==
    /\ semantic_future_.state = "ready"
    /\ semantic_future_'.state # "ready"

\* the run of a highlight job, from launch to a ready future
HighlightJobCompletes ==
    /\ highlight_future_.state = "running"
    /\ highlight_future_'.state = "ready"

\* the run of a semantic job, from launch to a ready future
SemanticJobCompletes ==
    /\ semantic_future_.state = "running"
    /\ semantic_future_'.state = "ready"

\* a new highlight job is launched in this step
HighlightLaunched ==
    /\ highlight_future_'.state = "running"
    /\ highlight_future_' # highlight_future_

\* a new semantic job is launched in this step
SemanticLaunched ==
    /\ semantic_future_'.state = "running"
    /\ semantic_future_' # semantic_future_

(***************************************************************************)
(* C1: a poll that takes a completed highlight job applies the job's       *)
(* tokens (the entry of token_cache_ under the hash of the buffer is the   *)
(* job's result, tokens_by_line_ is rebuilt from it, every entry of        *)
(* line_token_cache_ has needs_update) if and only if the version the job  *)
(* captured equals content_version_; when the versions differ the poll     *)
(* leaves line_token_cache_, tokens_by_line_ and token_cache_ as they were.*)
(***************************************************************************)
C1_AppliedIffVersionCurrent ==
    [][ (HighlightPollConsumes /\ ~highlight_future_.threw) =>
          /\ (last_poll'.outcome = "applied")
                <=> (highlight_future_.version = content_version_)
          /\ (highlight_future_.version # content_version_) =>
                /\ last_poll'.outcome = "stale"
                /\ line_token_cache_' = line_token_cache_
                /\ tokens_by_line_' = tokens_by_line_
                /\ token_cache_' = token_cache_
          /\ (highlight_future_.version = content_version_) =>
                /\ HashContent(lines_) \in DOMAIN token_cache_'
                /\ token_cache_'[HashContent(lines_)] = highlight_future_.result
                /\ tokens_by_line_' =
                      [i \in 1..Len(lines_) |->
                          SortByColumn(SelectSeq(highlight_future_.result,
                                                 LAMBDA x : x.line = i))]
                /\ \A i \in 1..Len(line_token_cache_') :
                      line_token_cache_'[i].needs_update
                /\ Len(line_token_cache_') = Len(line_token_cache_)
    ]_vars

\* the last poll took a job launched before an edit and discarded its tokens
C1_StaleResultPolled ==
    /\ last_poll.outcome = "stale"
    /\ last_poll.job_ver < content_version_

(***************************************************************************)
(* C2: whenever a poll applies a highlight result, the content the job     *)
(* tokenized is the current serialized document, the lines of lines_       *)
(* joined by line feeds.                                                   *)
(***************************************************************************)
C2_AppliedSnapshotIsCurrent ==
    [][ ( /\ HighlightPollConsumes
          /\ ~highlight_future_.threw
          /\ last_poll'.outcome = "applied" )
        => highlight_future_.content = JoinLines(lines_)
    ]_vars

(***************************************************************************)
(* C3: in each lane at most one background job is in flight; a job is      *)
(* launched only when the pending flag of its lane was false (in a poll:   *)
(* after the poll took the previous result and cleared the flag), never    *)
(* over a job that is still running or not yet taken; and the flag is      *)
(* cleared only by a poll that has taken the previous job's result.        *)
(***************************************************************************)
C3_OneJobPerLane ==
    [][ /\ hl_inflight <= 1 /\ hl_inflight' <= 1
        /\ sem_inflight <= 1 /\ sem_inflight' <= 1
        /\ HighlightLaunched =>
              /\ ~highlight_pending_ \/ HighlightPollConsumes
              /\ highlight_future_.state # "running"
              /\ highlight_pending_'
        /\ SemanticLaunched =>
              /\ ~semantic_pending_ \/ SemanticPollConsumes
              /\ semantic_future_.state # "running"
              /\ semantic_pending_'
        /\ (hl_inflight' > hl_inflight) => HighlightLaunched
        /\ (sem_inflight' > sem_inflight) => SemanticLaunched
        /\ (highlight_pending_ /\ ~highlight_pending_') => HighlightPollConsumes
        /\ (semantic_pending_ /\ ~semantic_pending_') => SemanticPollConsumes
    ]_vars

\* a job relaunched by a poll is in flight, with the flag set again
C3_RelaunchedAfterPoll ==
    /\ last_poll.outcome = "stale"
    /\ highlight_future_.state = "running"
    /\ highlight_pending_
    /\ hl_inflight = 1

(***************************************************************************)
(* C4: a content mutation while a highlight job is pending launches no     *)
(* second job and sets highlight_dirty_; the poll that takes that job      *)
(* launches a fresh job with the latest content (the serialized lines_)    *)
(* and the latest version, and clears highlight_dirty_.                    *)
(***************************************************************************)
C4_DirtyRelaunchesLatest ==
    [][ /\ (content_version_' # content_version_ /\ highlight_pending_) =>
              /\ ~HighlightLaunched
              /\ hl_inflight' = hl_inflight
              /\ highlight_dirty_'
        /\ ( /\ HighlightPollConsumes
             /\ ~highlight_future_.threw
             /\ highlight_dirty_ ) =>
              /\ HighlightLaunched
              /\ ~highlight_dirty_'
              /\ highlight_future_'.version = content_version_
              /\ highlight_future_'.content = JoinLines(lines_)
    ]_vars

\* C4, the consequence under fairness: once the keys stop, a result whose
\* version is content_version_ has been applied and stays the last one
\* polled, unless an exception ended the session
C4_CurrentResultEventuallyApplied ==
    <>[]( \/ crashed
          \/ /\ last_poll.outcome = "applied"
             /\ last_poll.job_ver = content_version_ )

(***************************************************************************)
(* C5: if the tokenizer throws inside a highlight job, then after the      *)
(* poll that meets that job highlight_pending_ is false (the lane is idle  *)
(* and a later mutation launches a new job).                               *)
(***************************************************************************)
C5_IdleAfterFailedJob ==
    (last_poll.outcome = "raised") => ~highlight_pending_

(***************************************************************************)
(* C6: with a tokenizer that throws on every invocation, no poll of the    *)
(* highlight lane raises an error to its caller, and                       *)
(* GetVisibleTokensForLine returns, for every non-empty line, the single   *)
(* default token that spans the line.                                      *)
(***************************************************************************)
C6_ThrowingTokenizerTolerated ==
    /\ last_poll.outcome # "raised"
    /\ ~crashed
    /\ \A i \in 1..Len(lines_) :
          lines_[i] # <<>> =>
             VisibleTokensForLine(State, i - 1)
                = << Token(i, 0, Len(lines_[i]), "Default") >>

(***************************************************************************)
(* C7: a semantic job whose snapshot was taken before a later content      *)
(* mutation does not overwrite sem_kind_ when it is polled.                *)
(***************************************************************************)
C7_StaleSemanticDiscarded ==
    [][ ( /\ SemanticPollConsumes
          /\ ~semantic_future_.threw
          /\ semantic_future_.version # content_version_ )
        => sem_kind_' = sem_kind_
    ]_vars

(***************************************************************************)
(* C8: after a content mutation a semantic job for the mutated content is  *)
(* launched, so that once the keys stop, with jobs completing and polls    *)
(* happening, sem_kind_ is the indexer's result for the current content    *)
(* from some point on (unless an exception ended the session).             *)
(***************************************************************************)
C8_SemanticEventuallyCurrent ==
    <>[]( \/ crashed
          \/ sem_kind_ = IndexSemKinds(JoinLines(lines_)) )

(***************************************************************************)
(* C9: the run of a background job writes only its own result: it leaves   *)
(* token_cache_ and semantic_cache_ as they were.                          *)
(***************************************************************************)
C9_JobsLeaveCachesAlone ==
    [][ (HighlightJobCompletes \/ SemanticJobCompletes) =>
           /\ token_cache_' = token_cache_
           /\ semantic_cache_' = semantic_cache_
    ]_vars

(***************************************************************************)
(* C10: token_cache_ holds at most 10 entries in every reachable state,    *)
(* whether a job or a poll inserted them.                                  *)
(***************************************************************************)
C10_TokenCacheBounded ==
    Cardinality(DOMAIN token_cache_) <= TokenCacheLimit

(***************************************************************************)
(* The insert policy of a bounded cache, as a relation between the cache   *)
(* before and after a step that adds a key: if the new key makes more than *)
(* limit entries the cache is left with one entry, the new one; otherwise  *)
(* every entry it had is still there.                                      *)
(***************************************************************************)
ClearThenInsert(old, new, limit) ==
    (DOMAIN new \ DOMAIN old # {}) =>
        IF Cardinality(DOMAIN old \cup DOMAIN new) > limit
        THEN Cardinality(DOMAIN new) = 1
        ELSE \A k \in DOMAIN old : k \in DOMAIN new /\ new[k] = old[k]

(***************************************************************************)
(* C11: every insert of a new key into token_cache_ (bound 10) or          *)
(* semantic_cache_ (bound 5) that would make the cache hold more than its  *)
(* bound leaves the cache holding exactly the new entry, and an insert     *)
(* within the bound removes no entry.                                      *)
(***************************************************************************)
C11_InsertClearsOnOverflow ==
    [][ /\ ClearThenInsert(token_cache_, token_cache_', TokenCacheLimit)
        /\ ClearThenInsert(semantic_cache_, semantic_cache_',
                           SemanticCacheLimit)
    ]_vars

(***************************************************************************)
(* C12: in every reachable state the cursor is on a line of the buffer and *)
(* within it: 0 <= cursor_.line < Len(lines_) and                          *)
(* 0 <= cursor_.column <= the length of that line.                         *)
(***************************************************************************)
C12_CursorInRange ==
    /\ 0 <= cursor_.line /\ cursor_.line < Len(lines_)
    /\ 0 <= cursor_.column
    /\ cursor_.line < Len(lines_) =>
          cursor_.column <= Len(lines_[cursor_.line + 1])

(***************************************************************************)
(* C13: lines_ is never empty.                                             *)
(***************************************************************************)
C13_AtLeastOneLine == Len(lines_) >= 1

\* everything was selected and cut (or deleted): one empty line is left
C13_EverythingDeleted ==
    /\ lines_ = << <<>> >>
    /\ undo_stack_ # <<>>
    /\ undo_stack_[Len(undo_stack_)].content # <<>>
    /\ content_version_ > 0
    /\ ~crashed

(***************************************************************************)
(* C14: content_version_ never decreases, and every step that changes the  *)
(* sequence of lines leaves content_version_ strictly greater than before. *)
(***************************************************************************)
C14_VersionBumpedOnChange ==
    [][ /\ content_version_' >= content_version_
        /\ (lines_' # lines_) => (content_version_' > content_version_)
    ]_vars

(***************************************************************************)
(* C15: GetContent() returns the lines of lines_ joined by single line     *)
(* feeds, with none after the last line: whenever the memoized string is   *)
(* taken as valid (content_dirty_ is false) it is that join.               *)
(***************************************************************************)
C15_MemoIsJoinOfLines ==
    GetContent(State).cached_content_ = JoinLines(lines_)

(***************************************************************************)
(* Character edits on a loaded file: only InsertChar and DeleteChar act,   *)
(* at the cursor the constructor sets.                                     *)
(***************************************************************************)
\* file contents the constructor may load, with and without a final line feed
RoundTripFiles == { <<>>, <<"a", NL, " ">>, <<"a", NL>>, <<"a", NL, NL>> }

InitCharEdits == \E file \in RoundTripFiles : Starts(Constructed(file))

NextCharEdits == TypeChar \/ Backspace

SpecCharEdits == InitCharEdits /\ [][NextCharEdits]_vars

(***************************************************************************)
(* C16: splitting the serialized document, GetContent(), by the rule of    *)
(* the constructor and of SetContent gives back exactly lines_.            *)
(***************************************************************************)
C16_SerializedRoundTrips ==
    SplitLines(GetContent(State).cached_content_) = lines_

(***************************************************************************)
(* SetContent with the document's own serialized content, among key        *)
(* strokes, completed jobs, polls and frames that fill the caches.         *)
(***************************************************************************)
ReloadOwnContent ==
    /\ ~crashed /\ ops < MaxOps
    /\ \E elapsed \in ElapsedMs :
          Becomes(Counted(SetContent(GetContent(State),
                                     GetContent(State).cached_content_,
                                     elapsed)))

NextReload ==
    \/ TypeChar \/ EnterKey \/ ReloadOwnContent
    \/ HighlightJobRuns \/ PollHighlights \/ RenderLines

SpecReload == Init /\ [][NextReload]_vars

(***************************************************************************)
(* C17: SetContent(GetContent()) changes nothing: lines_ is the same,      *)
(* every entry of line_token_cache_ is the same, content_version_ is not   *)
(* advanced and no highlight job is launched.                              *)
(***************************************************************************)
C17_ReloadOwnContentIsNoOp ==
    [][ ReloadOwnContent =>
          /\ lines_' = lines_
          /\ line_token_cache_' = line_token_cache_
          /\ content_version_' = content_version_
          /\ ~HighlightLaunched
    ]_vars

(***************************************************************************)
(* SetContent as a diff: documents of one to DocLines lines are replaced   *)
(* by one another after jobs, polls and frames have filled the caches.     *)
(***************************************************************************)
\* lines of the long document
DocLines == 10
\* the line (0-based) in which the long document and its variant differ
ChangedLine == 5
\* calls of SetContent per behaviour
MaxReplaces == 2

\* DocLines lines "a", and the same with a blank at line ChangedLine
LongText == JoinLines([i \in 1..DocLines |-> <<"a">>])
LongTextChanged ==
    JoinLines([i \in 1..DocLines |->
                  IF i - 1 = ChangedLine THEN <<" ">> ELSE <<"a">>])

DiffTexts ==
    { <<>>, <<"a">>, <<"a", NL, "a">>, <<"a", NL, " ", NL, "a">>,
      LongText, LongTextChanged }

InitDiff == \E file \in DiffTexts : Starts(Constructed(file))

ReplaceLines ==
    /\ ~crashed /\ ops < MaxReplaces
    /\ \E text \in DiffTexts, elapsed \in ElapsedMs :
          Becomes(Counted(SetContent(State, text, elapsed)))

NextDiff ==
    \/ ReplaceLines
    \/ HighlightJobRuns \/ PollHighlights \/ RenderLines

SpecDiff == InitDiff /\ [][NextDiff]_vars

\* the length of the longest common prefix of two sequences of lines
CommonPrefix(old, new) ==
    CHOOSE p \in 0..Min(Len(old), Len(new)) :
        /\ \A i \in 1..p : old[i] = new[i]
        /\ p < Min(Len(old), Len(new)) => old[p + 1] # new[p + 1]

\* the length of the longest common suffix that does not reach into the
\* first p lines of either
CommonSuffix(old, new, p) ==
    CHOOSE q \in 0..(Min(Len(old), Len(new)) - p) :
        /\ \A i \in 0..(q - 1) : old[Len(old) - i] = new[Len(new) - i]
        /\ q < Min(Len(old), Len(new)) - p
              => old[Len(old) - q] # new[Len(new) - q]

\* the entries of the new cache, by position, from those of the old one
ReusedByPosition(old, new, oldCache, newCache, p, q) ==
    /\ Len(newCache) = Len(new)
    /\ \A i \in 1..Len(new) :
          IF i <= p THEN newCache[i] = oldCache[i]
          ELSE IF i > Len(new) - q
          THEN newCache[i] = oldCache[i + Len(old) - Len(new)]
          ELSE ~newCache[i].is_valid /\ newCache[i].needs_update

(***************************************************************************)
(* C18: SetContent finds the longest common prefix and the longest common  *)
(* suffix of the old and the new lines, which never overlap (prefix +      *)
(* suffix <= the smaller line count); a new line in the prefix gets the    *)
(* cache entry of the old line at its index, a new line in the suffix the  *)
(* entry of the old line at index + oldCount - newCount, and every line    *)
(* between is left with is_valid false and needs_update true.              *)
(***************************************************************************)
C18_PrefixSuffixEntriesReused ==
    [][ ReplaceLines =>
          /\ PrefixLen(lines_, lines_', 0) = CommonPrefix(lines_, lines_')
          /\ SuffixLen(lines_, lines_', PrefixLen(lines_, lines_', 0), 0)
                = CommonSuffix(lines_, lines_', CommonPrefix(lines_, lines_'))
          /\ PrefixLen(lines_, lines_', 0)
                + SuffixLen(lines_, lines_', PrefixLen(lines_, lines_', 0), 0)
                <= Min(Len(lines_), Len(lines_'))
          /\ ReusedByPosition(lines_, lines_',
                              line_token_cache_, line_token_cache_',
                              CommonPrefix(lines_, lines_'),
                              CommonSuffix(lines_, lines_',
                                           CommonPrefix(lines_, lines_')))
    ]_vars

\* the long document, rendered with its tokens, was replaced by its variant:
\* the entries of all lines but ChangedLine are the valid ones of before,
\* the entry of ChangedLine is invalid
C18_OneLineOfLongTextChanged ==
    /\ ops > 0
    /\ lines_ = SplitLines(LongTextChanged)
    /\ \A i \in 1..DocLines :
          IF i - 1 = ChangedLine
          THEN /\ ~line_token_cache_[i].is_valid
               /\ line_token_cache_[i].needs_update
          ELSE /\ line_token_cache_[i].is_valid
               /\ line_token_cache_[i].line_hash = HashLine(<<"a">>)
               /\ line_token_cache_[i].tokens = << Token(i, 0, 1, "Ident") >>

(***************************************************************************)
(* A long session on an empty file: 'a' is typed and erased again, every   *)
(* key after a pause longer than TYPING_DEBOUNCE so that each one takes a  *)
(* snapshot; once the undo history is about to fill, Ctrl+Z and Ctrl+Y are *)
(* pressed too.                                                            *)
(***************************************************************************)
\* input events per behaviour
MaxHistoryOps == 260

HistoryNearFull ==
    Len(undo_stack_) + Len(redo_stack_) >= MAX_UNDO_STACK - 1

TypeFresh ==
    /\ ~crashed /\ ops < MaxHistoryOps /\ Indexable
    /\ lines_[cursor_.line + 1] = <<>>
    /\ \E elapsed \in ElapsedMs :
          /\ elapsed > TYPING_DEBOUNCE
          /\ Becomes(Counted(InsertChar(State, "a", elapsed)))

EraseFresh ==
    /\ ~crashed /\ ops < MaxHistoryOps /\ Indexable
    /\ cursor_.column > 0
    /\ \E elapsed \in ElapsedMs :
          /\ elapsed > TYPING_DEBOUNCE
          /\ Becomes(Counted(DeleteChar(State, elapsed)))

UndoLate ==
    /\ ~crashed /\ ops < MaxHistoryOps /\ HistoryNearFull
    /\ undo_stack_ # <<>>
    /\ \E elapsed \in ElapsedMs : Becomes(Counted(Undo(State, elapsed)))

RedoLate ==
    /\ ~crashed /\ ops < MaxHistoryOps /\ HistoryNearFull
    /\ redo_stack_ # <<>>
    /\ \E elapsed \in ElapsedMs : Becomes(Counted(Redo(State, elapsed)))

NextHistory == TypeFresh \/ EraseFresh \/ UndoLate \/ RedoLate

SpecHistory == InitTyping /\ [][NextHistory]_vars

(***************************************************************************)
(* C19: the undo stack never holds more than MAX_UNDO_STACK (256)          *)
(* snapshots; a snapshot taken when the stack is full drops the oldest     *)
(* entry and is itself on top.                                             *)
(***************************************************************************)
C19_UndoStackBounded ==
    [][ /\ Len(undo_stack_) <= MAX_UNDO_STACK
        /\ Len(undo_stack_') <= MAX_UNDO_STACK
        /\ ((TypeFresh \/ EraseFresh) /\ Len(undo_stack_) = MAX_UNDO_STACK) =>
              undo_stack_' =
                 Append(Tail(undo_stack_),
                        [content |-> GetContent(State).cached_content_,
                         cursor |-> cursor_])
    ]_vars

\* the stack is full and the snapshot of the empty file, the oldest, is gone:
\* the first entry is the second snapshot, the top one is the latest
C19_OldestSnapshotDropped ==
    /\ Len(undo_stack_) = MAX_UNDO_STACK
    /\ undo_stack_[1].content = <<"a">>
    /\ undo_stack_[MAX_UNDO_STACK].content = <<>>
    /\ lines_ = << <<"a">> >>
    /\ redo_stack_ = <<>>

(***************************************************************************)
(* C20: every edit that changes the document and is not an undo or a redo  *)
(* (a typed character, Backspace, Enter, paste, cut of the selection)      *)
(* leaves the redo stack empty.                                            *)
(***************************************************************************)
C20_EditClearsRedo ==
    [][ ( /\ TypeChar \/ Backspace \/ EnterKey \/ Paste \/ CutSelection
          /\ lines_' # lines_ )
        => redo_stack_' = <<>>
    ]_vars

(***************************************************************************)
(* C21: in every state with a non-empty undo stack, Undo() followed at     *)
(* once by Redo() gives back the lines and the cursor of before the undo,  *)
(* and leaves the undo stack as it was before the undo.                    *)
(***************************************************************************)
C21_RedoAfterUndoRestores ==
    (~crashed /\ undo_stack_ # <<>>) =>
        \A e1 \in ElapsedMs, e2 \in ElapsedMs :
            /\ Redo(Undo(State, e1), e2).lines_ = lines_
            /\ Redo(Undo(State, e1), e2).cursor_ = cursor_
            /\ Redo(Undo(State, e1), e2).undo_stack_ = undo_stack_

(***************************************************************************)
(* A burst of typing: the first character after a pause longer than        *)
(* TYPING_DEBOUNCE, every further one within the window of the one before. *)
(***************************************************************************)
\* characters of the longest burst
MaxBurst == 3

RECURSIVE TypeBurst(_, _)
TypeBurst(s, k) ==
    IF k = 1 THEN InsertChar(s, "a", TYPING_DEBOUNCE + 1)
    ELSE InsertChar(TypeBurst(s, k - 1), "a", 0)

(***************************************************************************)
(* C22: k >= 1 characters typed in one burst, with no selection, push      *)
(* exactly one undo snapshot, and one Undo() after the burst restores the  *)
(* lines and the cursor of before the first character.                     *)
(***************************************************************************)
C22_BurstUndoneInOneStep ==
    (~crashed /\ ~has_selection_ /\ Indexable) =>
        \A k \in 1..MaxBurst :
            /\ Len(TypeBurst(State, k).undo_stack_) = Len(undo_stack_) + 1
            /\ Undo(TypeBurst(State, k), 0).lines_ = lines_
            /\ Undo(TypeBurst(State, k), 0).cursor_ = cursor_

\* the handler pushes one undo snapshot when it runs in state s
PushesSnapshot(s, after) == Len(after.undo_stack_) = Len(s.undo_stack_) + 1

\* a state in which the character handlers may run: no selection, the cursor
\* on the buffer
Editable(s) == ~s.has_selection_ /\ InRange(s, s.cursor_)

(***************************************************************************)
(* C23: an operation of another kind ends the session.  An InsertChar      *)
(* that follows a DeleteChar, an Undo or a Redo pushes its own snapshot    *)
(* even within the debounce window of an earlier InsertChar, and a         *)
(* DeleteChar that follows an InsertChar, an Undo or a Redo pushes its own *)
(* snapshot even within the window of an earlier DeleteChar.               *)
(***************************************************************************)
C23_OtherKindEndsSession ==
    (~crashed /\ Editable(State)) =>
        \A e \in ElapsedMs :
            /\ (cursor_ # CursorPosition(0, 0)) =>
                  PushesSnapshot(DeleteChar(State, e),
                                 InsertChar(DeleteChar(State, e), "a", 0))
            /\ (undo_stack_ # <<>> /\ Editable(Undo(State, e))) =>
                  PushesSnapshot(Undo(State, e),
                                 InsertChar(Undo(State, e), "a", 0))
            /\ (redo_stack_ # <<>> /\ Editable(Redo(State, e))) =>
                  PushesSnapshot(Redo(State, e),
                                 InsertChar(Redo(State, e), "a", 0))
            /\ PushesSnapshot(InsertChar(State, "a", e),
                              DeleteChar(InsertChar(State, "a", e), 0))
            /\ ( /\ undo_stack_ # <<>> /\ Editable(Undo(State, e))
                 /\ Undo(State, e).cursor_ # CursorPosition(0, 0) ) =>
                  PushesSnapshot(Undo(State, e), DeleteChar(Undo(State, e), 0))
            /\ ( /\ redo_stack_ # <<>> /\ Editable(Redo(State, e))
                 /\ Redo(State, e).cursor_ # CursorPosition(0, 0) ) =>
                  PushesSnapshot(Redo(State, e), DeleteChar(Redo(State, e), 0))

\* the step leaves every line but line l (0-based) with the text
\* and the cache entry it had
OtherLinesKept(l) ==
    /\ Len(lines_') = Len(lines_)
    /\ Len(line_token_cache_') = Len(line_token_cache_)
    /\ \A i \in 1..Len(lines_) :
          (i - 1 # l) => /\ lines_'[i] = lines_[i]
                         /\ line_token_cache_'[i] = line_token_cache_[i]

(***************************************************************************)
(* C24: a character c typed with no selection at cursor (l, k) is inserted *)
(* at column k of line l, the cursor moves to (l, k + 1), the cache entry  *)
(* of line l gets needs_update, and the text and the cache entry of every  *)
(* other line stay as they were.                                           *)
(***************************************************************************)
C24_InsertCharTouchesOneLine ==
    [][ (TypeChar /\ ~has_selection_) =>
          /\ \E c \in Alphabet :
                lines_'[cursor_.line + 1] =
                    SubSeq(lines_[cursor_.line + 1], 1, cursor_.column)
                    \o <<c>>
                    \o SubSeq(lines_[cursor_.line + 1], cursor_.column + 1,
                              Len(lines_[cursor_.line + 1]))
          /\ cursor_' = CursorPosition(cursor_.line, cursor_.column + 1)
          /\ line_token_cache_'[cursor_.line + 1].needs_update
          /\ OtherLinesKept(cursor_.line)
    ]_vars

\* a character was typed on the second line of a document whose first line
\* has a validated cache entry: that entry is still clean, the second is dirty
C24_SecondLineTyped ==
    /\ Len(lines_) = 2
    /\ cursor_.line = 1 /\ cursor_.column > 0
    /\ typing_session_
    /\ line_token_cache_[1].is_valid /\ ~line_token_cache_[1].needs_update
    /\ line_token_cache_[2].needs_update
    /\ ~crashed

(***************************************************************************)
(* C25: deleting an empty selection is a no-op.  Backspace or a cut with a *)
(* selection whose start equals the cursor changes neither the lines nor   *)
(* content_version_ and pushes no undo snapshot; and DeleteChar at (0,0)   *)
(* with no selection changes no state.                                     *)
(***************************************************************************)
C25_EmptySelectionDeleteIsNoOp ==
    [][ /\ ( /\ Backspace \/ CutSelection
             /\ has_selection_ /\ selection_start_ = cursor_ ) =>
              /\ lines_' = lines_
              /\ content_version_' = content_version_
              /\ undo_stack_' = undo_stack_
        /\ (~has_selection_ /\ cursor_ = CursorPosition(0, 0)) =>
              \A e \in ElapsedMs : DeleteChar(State, e) = State
    ]_vars

\* the spans of a token list, without the line numbers
Spans(tokens) ==
    [i \in 1..Len(tokens) |->
        [column |-> tokens[i].column, length |-> tokens[i].length,
         type |-> tokens[i].type]]

(***************************************************************************)
(* C26: for every line n, when the entry of line_token_cache_ has is_valid *)
(* and not needs_update and its line_hash is the hash of the current text  *)
(* of line n, its tokens are those the tokenizer gives for that text (they *)
(* were not computed for an earlier, different text of the line).          *)
(***************************************************************************)
C26_ValidEntryHoldsCurrentTokens ==
    \A i \in 1..Len(lines_) :
        ( /\ i <= Len(line_token_cache_)
          /\ line_token_cache_[i].is_valid
          /\ ~line_token_cache_[i].needs_update
          /\ line_token_cache_[i].line_hash = HashLine(lines_[i]) )
        => Spans(line_token_cache_[i].tokens)
              = Spans(ScanLine(lines_[i], i, 0, -1))

\* the tokens of a highlight result for line n (0-based), ordered by column
ResultTokensOfLine(result, n) ==
    SortByColumn(SelectSeq(result, LAMBDA x : x.line = n + 1))

\* the placeholder GetVisibleTokensForLine creates for a text
PlaceholderTokens(text, n) ==
    IF text # <<>> THEN << Token(n + 1, 0, Len(text), "Default") >> ELSE <<>>

(***************************************************************************)
(* C27: when the poll step applies a current-version highlight result,     *)
(* then in the state it leaves (no edit has happened since)                *)
(* GetVisibleTokensForLine(n) returns, for every line n, exactly the       *)
(* tokens of the applied result whose 1-based line is n+1, ordered by      *)
(* column; when the result has none for the line, nothing of an earlier    *)
(* tokenization is returned (at most the placeholder of the line's text).  *)
(***************************************************************************)
C27_AppliedResultIsWhatIsShown ==
    [][ ( /\ HighlightPollConsumes
          /\ ~crashed'
          /\ last_poll'.outcome = "applied" ) =>
            \A n \in 0..(Len(lines_') - 1) :
                \/ VisibleTokensForLine(State', n)
                       = ResultTokensOfLine(highlight_future_.result, n)
                \/ /\ ResultTokensOfLine(highlight_future_.result, n) = <<>>
                   /\ VisibleTokensForLine(State', n)
                          = PlaceholderTokens(lines_'[n + 1], n)
    ]_vars

\* the line is in range, its entry is not valid and the per-line token
\* distribution has no tokens for it
NeverResolved(s, n) ==
    /\ n >= 0 /\ n < Len(s.lines_)
    /\ n < Len(s.line_token_cache_)
    /\ ~s.line_token_cache_[n + 1].is_valid
    /\ (n < Len(s.tokens_by_line_) => s.tokens_by_line_[n + 1] = <<>>)

\* the call changes nothing but the entry of the line: no future is consumed
TouchesOnlyEntry(s, n) ==
    GetVisibleTokensForLine(s, n) =
        [s EXCEPT !.line_token_cache_[n + 1] =
             GetVisibleTokensForLine(s, n).line_token_cache_[n + 1]]

MaxPastes == 2

PasteTexts == { <<"a">>, <<" ", NL, "a">> }

PasteStep(text, elapsed) == Becomes(Counted(PasteText(State, text, elapsed)))

PasteLines ==
    /\ ~crashed /\ ops < MaxPastes /\ Indexable
    /\ \E text \in PasteTexts, elapsed \in ElapsedMs : PasteStep(text, elapsed)

NextPaste ==
    \/ PasteLines
    \/ HighlightJobRuns
    \/ PollHighlights
    \/ RenderLines

SpecPaste == Init /\ [][NextPaste]_vars

\* the entry is dirty: needs_update set or is_valid false
Dirty(entry) == entry.needs_update \/ ~entry.is_valid

(***************************************************************************)
(* C29: after PasteText of a text that splits into k >= 1 lines, with no   *)
(* selection and the cursor on line L, every line in [L, L+k-1] whose text *)
(* the paste changed or created has a dirty cache entry (needs_update set  *)
(* or is_valid false), and no cache entry before L is modified.            *)
(***************************************************************************)
C29_PastedSpanDirty ==
    [][ \A text \in PasteTexts, elapsed \in ElapsedMs :
          ( /\ ~crashed /\ ops < MaxPastes /\ Indexable /\ ~has_selection_
            /\ PasteStep(text, elapsed) ) =>
              LET k == Len(SplitLines(text))
                  L == cursor_.line
              IN  /\ \A i \in L..(L + k - 1) :
                        (i > L \/ lines_'[i + 1] # lines_[i + 1])
                            => Dirty(line_token_cache_'[i + 1])
                  /\ \A i \in 0..(L - 1) :
                        line_token_cache_'[i + 1] = line_token_cache_[i + 1]
    ]_vars

(***************************************************************************)
(* C30: highlight_dirty_ is true only while a highlight job is pending     *)
(* (highlight_pending_ false implies highlight_dirty_ false), and at every *)
(* poll that consumes a completed job, highlight_dirty_ is set if and only *)
(* if the version of the job differs from content_version_.                *)
(***************************************************************************)
C30_DirtyOnlyWhilePendingAndStale ==
    [][ /\ ~highlight_pending_ => ~highlight_dirty_
        /\ ~highlight_pending_' => ~highlight_dirty_'
        /\ (HighlightPollConsumes /\ ~highlight_future_.threw) =>
              (highlight_dirty_
                  <=> highlight_future_.version # content_version_)
    ]_vars

\* a stale result was polled with the flag set, the flag was cleared and the
\* job relaunched on the current version has completed
C30_RelaunchedJobIsCurrent ==
    /\ last_poll.outcome = "stale"
    /\ ~highlight_dirty_
    /\ highlight_pending_
    /\ highlight_future_.state = "ready"
    /\ ~highlight_future_.threw
    /\ highlight_future_.version = content_version_
    /\ ~crashed

====
